---- MODULE Spec2Model ----
(***************************************************************************)
(* A model of the LULC dashboard (src/app.py, src/modules/gee_utils.py,    *)
(* src/modules/report_utils.py).                                           *)
(*                                                                         *)
(* The dashboard is a Streamlit script: every click or widget change       *)
(* re-executes src/app.py from top to bottom against the session state.    *)
(* One execution is modelled as the steps                                  *)
(*   trigger -> Section1 -> Section2 -> Section3 -> idle.                  *)
(*                                                                         *)
(* Units.  Areas are integers counting hundredths of a hectare, percent    *)
(* values are integers counting hundredths of a percent, dates are day     *)
(* ordinals relative to 2015-06-30 (day 0), coordinates are integers       *)
(* counting 1/DegUnits of a degree and the buffer radius counts tenths of  *)
(* a kilometre.                                                            *)
(***************************************************************************)
EXTENDS Integers, Sequences, FiniteSets, TLC

VARIABLES
    \* sidebar widgets
    region_option, lat, lon, buffer_km, start_date, end_date,
    \* region resolver output
    region_geom,
    \* st.session_state
    submitted, generate_pdf, session,
    \* position in the script and the locals of the current execution
    pc, clicked, midpoint, before_img, after_img, fig_image,
    table_data, summary_structured, pdf_rows,
    \* environment: files on disk, external requests issued and messages
    \* displayed in the current execution, the document emitted by it
    files, requests, errors, report,
    \* history: the session results when the current execution started, and
    \* whether some execution completed Sections 1 and 2 without an error
    session_at_start, succeeded

vars == <<region_option, lat, lon, buffer_km, start_date, end_date, region_geom,
          submitted, generate_pdf, session,
          pc, clicked, midpoint, before_img, after_img, fig_image,
          table_data, summary_structured, pdf_rows,
          files, requests, errors, report, session_at_start, succeeded>>

widgetVars == <<region_option, lat, lon, buffer_km, start_date, end_date>>
localVars == <<midpoint, before_img, after_img, fig_image,
               table_data, summary_structured, pdf_rows>>
envVars == <<files, requests, errors, report>>

----------------------------------------------------------------------------
(* Bounds of the model *)

\* class ids are drawn from 0 .. MaxClass-1
MaxClass == 2
\* areas are drawn from 0 .. MaxArea (hundredths of a hectare)
MaxArea == 3
\* dates are drawn from -MaxDay .. MaxDay (start dates from 0 .. MaxDay)
MaxDay == 6
\* custom centres are drawn from a grid of 2*MaxCoord+1 steps around the default
MaxCoord == 1
\* in a session, the date widgets are set to days of 0 .. RunMaxDay
RunMaxDay == 1

(* Program constants *)

\* app.py:47,66 divide the radius in kilometres by 111.0
KmPerDegree == 111
\* coordinate units per degree, chosen so that both the preset centre and
\* radius / 111 are whole numbers of units
DegUnits == 100000 * KmPerDegree
\* eksu_lat = 7.720720, eksu_lon = 5.260590
eksu_lat == 772072 * KmPerDegree
eksu_lon == 526059 * KmPerDegree
\* eksu_buffer_km = 2.0, in tenths of a kilometre
eksu_buffer_km == 20
\* number_input("Buffer Radius (km)", value=3.0, min_value=0.1, max_value=10.0)
BufferDefault == 30
BufferMin == 1
BufferMax == 100
\* number_input's step for the coordinates (0.01 degree), in units
CoordStep == DegUnits \div 100
\* date_input defaults: date(2015, 6, 30) is day 0, date(2023, 12, 31) is day 3106
StartFloor == 0
EndDefault == 3106

\* A name that is not bound (a missing session key, an undefined local, a
\* missing file), or the value bound to it.  age records whether the value
\* was produced by the current execution ("cur") or by an earlier one ("old")
NoVal == [set |-> FALSE]
Val(a, x) == [set |-> TRUE, age |-> a, v |-> x]
Aged(x) == IF x.set THEN [x EXCEPT !.age = "old"] ELSE x
AgedAll(f) == [k \in DOMAIN f |-> Aged(f[k])]

----------------------------------------------------------------------------
(* Rounding: Python's round(x, 2) on the exact value num/den, den > 0,     *)
(* with x counted in hundredths: the nearest integer, ties to even.        *)

Round2(num, den) ==
    LET q == num \div den
        r == num % den
    IN  IF 2 * r < den THEN q
        ELSE IF 2 * r > den THEN q + 1
        ELSE IF q % 2 = 0 THEN q ELSE q + 1

----------------------------------------------------------------------------
(* Change aggregator *)

\* a class-area mapping: a function from a set of class ids to areas
Mappings(ids, areas) == UNION {[d -> areas] : d \in SUBSET ids}

EmptyMap == [k \in {} |-> 0]

\* dict.get(k, 0)
Get(m, k) == IF k \in DOMAIN m THEN m[k] ELSE 0

Min(S) == CHOOSE x \in S : \A y \in S : x <= y

\* sorted(S) for a set of integers
RECURSIVE Sorted(_)
Sorted(S) ==
    IF S = {} THEN <<>> ELSE <<Min(S)>> \o Sorted(S \ {Min(S)})

AllKeysBeforeOnly(before, after) == Sorted(DOMAIN before)

\* app.py:214, 296: sorted(set(before.keys()) | set(after.keys()))
AllKeys(before, after) == Sorted(DOMAIN before \cup DOMAIN after)

NA == [kind |-> "N/A", val |-> 0]
Num(x) == [kind |-> "num", val |-> x]

PercentOfAfter(b, a) ==
    IF a # 0 THEN Num(Round2(Round2(a - b, 1) * 10000, a)) ELSE NA

\* app.py:222-223: diff = round(a - b, 2);
\* percent = round((diff / b) * 100, 2) if b != 0 else "N/A"
TablePercent(b, a) ==
    IF b # 0 THEN Num(Round2(Round2(a - b, 1) * 10000, b)) ELSE NA

\* app.py:219-224: one row (k, b, a, diff, percent)
TableRow(before, after, k) ==
    LET b == Get(before, k)
        a == Get(after, k)
    IN  <<k, b, a, Round2(a - b, 1), TablePercent(b, a)>>

\* app.py:218-224
TableData(before, after) ==
    LET keys == AllKeys(before, after)
    IN  [i \in 1..Len(keys) |-> TableRow(before, after, keys[i])]

\* app.py:294-295: round(((a - b) / b) * 100, 2) if b != 0 else 0
ReportPercent(b, a) ==
    IF b # 0 THEN Num(Round2((a - b) * 10000, b)) ELSE Num(0)

\* app.py:288-298: summary_structured["clusters"], a dict in insertion order:
\* the sequence of its (key, row) items
SummaryStructured(before, after) ==
    LET keys == AllKeys(before, after)
    IN  [i \in 1..Len(keys) |->
            [k |-> keys[i],
             before |-> Get(before, keys[i]),
             after |-> Get(after, keys[i]),
             change |-> Round2(Get(after, keys[i]) - Get(before, keys[i]), 1),
             percent |-> ReportPercent(Get(before, keys[i]), Get(after, keys[i]))]]

\* report_utils.py:65-71: the cells of one table line per cluster; the last
\* cell is str(row['percent']) + '%'
PdfRows(summary) ==
    [i \in 1..Len(summary) |->
        <<summary[i].k, summary[i].before, summary[i].after, summary[i].change,
          <<summary[i].percent, "%">> >>]

----------------------------------------------------------------------------
(* Time window splitter *)

MidpointCeil(start, end) == start + ((end - start + 1) \div 2)

\* app.py:140: start_date + (end_date - start_date) / 2.  The timedelta
\* quotient is exact (whole or half days) and date + timedelta adds only its
\* days field, which is the floor also for a negative difference
Midpoint(start, end) == start + ((end - start) \div 2)

\* app.py:142: get_composite_image(str(start_date), str(midpoint), ...)
BeforeWindow(start, end) == [from |-> start, to |-> Midpoint(start, end)]

\* app.py:147: get_composite_image(str(midpoint + timedelta(days=1)), str(end_date), ...)
AfterWindow(start, end) == [from |-> Midpoint(start, end) + 1, to |-> end]

\* the days of a window taken as the closed range [from, to]
Days(w) == w.from .. w.to

----------------------------------------------------------------------------
(* Region resolver *)

DeltaPerKm(km10) == (km10 * DegUnits) \div 10

\* app.py:47, 66: delta = buffer_km / 111.0, in coordinate units
Delta(km10) == (km10 * DegUnits) \div (10 * KmPerDegree)

\* app.py:49-57, 68-76: the ring handed to ee.Geometry.Polygon
Square(clon, clat, d) ==
    << <<clon - d, clat - d>>, <<clon - d, clat + d>>,
       <<clon + d, clat + d>>, <<clon + d, clat - d>>,
       <<clon - d, clat - d>> >>

\* app.py:43-77: the preset polygon, replaced in custom mode
RegionGeom(option, clat, clon, km10) ==
    IF option = "Custom Coordinates"
    THEN Square(clon, clat, Delta(km10))
    ELSE Square(eksu_lon, eksu_lat, Delta(eksu_buffer_km))

----------------------------------------------------------------------------
(* External services.  Every request either raises or answers; what it     *)
(* answers is chosen by the environment.                                   *)

\* the image files the script writes and the report reads
FileNames == {"before.png", "after.png", "before_cluster.png",
              "after_cluster.png", "chart.png"}

\* outcomes of requests.get in save_image_from_url
GetOutcomes == {"200", "non200", "raise"}

\* the frequency histogram a session's classification request answers with:
\* class id -> pixel weight, in tenths of a pixel
RunHists == {[k \in {0} |-> 10 * MaxArea + 4]}

ClassifyRaises == [kind |-> "raise", size |-> 0, hist |-> EmptyMap]

\* answers of the classification service: the sample size (gee_utils.py:78)
\* and the histogram (gee_utils.py:94-100), or an exception
ClassifyResponses ==
    {ClassifyRaises, [kind |-> "resp", size |-> 0, hist |-> EmptyMap]}
    \cup {[kind |-> "resp", size |-> 1, hist |-> h] : h \in RunHists}

\* gee_utils.py:104: {int(k): round(v * 0.01, 2) for k, v in class_freq.items()}
HistToAreas(hist) == [k \in DOMAIN hist |-> Round2(hist[k], 10)]

\* gee_utils.py:58-106: what classify_and_summarize returns when the service
\* answers, as the sequence of values a tuple-unpacking of it yields: the
\* bare `{}` of line 82 yields none, the tuple of line 106 yields two
ClassifyAndSummarize(resp) ==
    IF resp.size = 0 THEN <<>>
    ELSE <<HistToAreas(resp.hist), "clustered">>

\* app.py:170, 172: `summary, clustered = classify_and_summarize(...)` binds
\* both names when the call returns and yields two values
Unpacks(resp) == resp.kind = "resp" /\ Len(ClassifyAndSummarize(resp)) = 2

\* the first n elements of a sequence
Prefix(s, n) == SubSeq(s, 1, IF n < Len(s) THEN n ELSE Len(s))

NoSession == [before_url |-> NoVal, after_url |-> NoVal,
              before_summary |-> NoVal, after_summary |-> NoVal,
              before_cluster_img |-> NoVal, after_cluster_img |-> NoVal]

----------------------------------------------------------------------------
(* Initial state: a fresh session (app.py:11-15) with the widgets' defaults *)

Init ==
    /\ region_option = "EKSU Environs"
    /\ lat = eksu_lat
    /\ lon = eksu_lon
    /\ buffer_km = BufferDefault
    /\ start_date = StartFloor
    /\ end_date = EndDefault
    /\ region_geom = RegionGeom("EKSU Environs", eksu_lat, eksu_lon, BufferDefault)
    /\ submitted = FALSE
    /\ generate_pdf = FALSE
    /\ session = NoSession
    /\ pc = "idle"
    /\ clicked = "none"
    /\ midpoint = NoVal
    /\ before_img = NoVal
    /\ after_img = NoVal
    /\ fig_image = NoVal
    /\ table_data = <<>>
    /\ summary_structured = <<>>
    /\ pdf_rows = <<>>
    /\ files = [f \in FileNames |-> NoVal]
    /\ requests = <<>>
    /\ errors = {}
    /\ report = NoVal
    /\ session_at_start = NoSession
    /\ succeeded = FALSE

----------------------------------------------------------------------------
(* A script execution starts: app.py:11-93 *)

\* a new execution: its locals are unbound, its page is empty, and what the
\* session and the disk hold is from now on of an earlier execution
StartRun ==
    /\ pc = "idle"
    /\ pc' = "sec1"
    /\ midpoint' = NoVal
    /\ before_img' = NoVal
    /\ after_img' = NoVal
    /\ fig_image' = NoVal
    /\ table_data' = <<>>
    /\ summary_structured' = <<>>
    /\ pdf_rows' = <<>>
    /\ requests' = <<>>
    /\ errors' = {}
    /\ report' = NoVal
    /\ session' = AgedAll(session)
    /\ files' = AgedAll(files)
    /\ session_at_start' = AgedAll(session)
    /\ UNCHANGED succeeded

\* app.py:43-77: every execution resolves the region from the widgets
ResolveRegion == region_geom' = RegionGeom(region_option', lat', lon', buffer_km')

\* app.py:91-93: the Run Analysis button
ClickRunAnalysis ==
    /\ StartRun
    /\ clicked' = "run"
    /\ submitted' = TRUE
    /\ generate_pdf' = FALSE
    /\ UNCHANGED widgetVars
    /\ ResolveRegion

\* app.py:264: the Generate Report PDF button; its flag is set when the
\* execution reaches line 265
ClickGenerateReport ==
    /\ StartRun
    /\ clicked' = "pdf"
    /\ UNCHANGED <<submitted, generate_pdf>>
    /\ UNCHANGED widgetVars
    /\ ResolveRegion

\* app.py:81: the start date widget, floored at 2015-06-30
SetStartDate(d) ==
    /\ StartRun
    /\ d >= StartFloor
    /\ d # start_date
    /\ start_date' = d
    /\ clicked' = "none"
    /\ UNCHANGED <<submitted, generate_pdf>>
    /\ UNCHANGED <<region_option, lat, lon, buffer_km, end_date>>
    /\ ResolveRegion

\* app.py:82: the end date widget
SetEndDate(d) ==
    /\ StartRun
    /\ d # end_date
    /\ end_date' = d
    /\ clicked' = "none"
    /\ UNCHANGED <<submitted, generate_pdf>>
    /\ UNCHANGED <<region_option, lat, lon, buffer_km, start_date>>
    /\ ResolveRegion

----------------------------------------------------------------------------
(* Section 1: app.py:125-163 *)

\* the four external requests of app.py:142-149, in order
Section1Calls(start, end) ==
    << [call |-> "composite", side |-> "before", arg |-> BeforeWindow(start, end)],
       [call |-> "thumbnail", side |-> "before", arg |-> BeforeWindow(start, end)],
       [call |-> "composite", side |-> "after", arg |-> AfterWindow(start, end)],
       [call |-> "thumbnail", side |-> "after", arg |-> AfterWindow(start, end)] >>

\* a log entry of an external request and how it ended
Logged(c, status) ==
    [call |-> c.call, side |-> c.side, arg |-> c.arg, status |-> status]

\* the log of Section 1 when request number f raises (0: none does)
Section1Log(start, end, f) ==
    LET calls == Section1Calls(start, end)
        n == IF f = 0 THEN 4 ELSE f
    IN  [i \in 1..n |-> Logged(calls[i], IF i = f THEN "raise" ELSE "ok")]

Section1 ==
    /\ pc = "sec1"
    /\ pc' = "sec2"
    /\ IF ~submitted
       THEN UNCHANGED <<midpoint, before_img, after_img, session, requests, errors>>
       ELSE \E f \in 0..4 :
            /\ midpoint' = Val("cur", Midpoint(start_date, end_date))
            /\ requests' = requests \o Section1Log(start_date, end_date, f)
            /\ before_img' = IF f # 1
                             THEN Val("cur", BeforeWindow(start_date, end_date))
                             ELSE NoVal
            /\ after_img' = IF f \in {0, 4}
                            THEN Val("cur", AfterWindow(start_date, end_date))
                            ELSE NoVal
            /\ session' = [session EXCEPT
                    !.before_url = IF f \in {0, 3, 4} THEN Val("cur", "url") ELSE @,
                    !.after_url = IF f = 0 THEN Val("cur", "url") ELSE @]
            /\ errors' = IF f # 0 THEN errors \cup {"Failed to fetch images"}
                         ELSE errors
    /\ UNCHANGED <<widgetVars, region_geom, submitted, generate_pdf, clicked,
                   fig_image, table_data, summary_structured, pdf_rows,
                   files, report, session_at_start, succeeded>>

----------------------------------------------------------------------------
(* save_image_from_url: app.py:17-24 *)

\* the files after save_image_from_url(url, name) when requests.get ends in
\* `outcome`: only a 200 response writes the file, any other is dropped
SaveImageFromUrl(fs, name, outcome) ==
    IF outcome = "200" THEN [fs EXCEPT ![name] = Val("cur", "png")] ELSE fs

----------------------------------------------------------------------------
(* Section 2: app.py:165-259 *)

\* what the try block of Section 2 does when the classification service
\* answers r1 and r2, the two thumbnail requests end in t1 and t2 (TRUE: a
\* URL) and the two downloads in s1 and s2 ("raise": requests.get or the
\* decoding of the image raised).  The local library calls (pandas, plotly)
\* are taken to succeed
Section2Try(r1, r2, t1, t2, s1, s2) ==
    LET ret1 == ClassifyAndSummarize(r1)
        ret2 == ClassifyAndSummarize(r2)
        ok1 == Unpacks(r1)
        ok2 == ok1 /\ Unpacks(r2)
        ok3 == ok2 /\ t1
        ok4 == ok3 /\ t2
        ok5 == ok4 /\ s1 # "raise"
        ok6 == ok5 /\ s2 # "raise"
        log == << [call |-> "classify", side |-> "before", arg |-> r1,
                   status |-> IF r1.kind = "resp" THEN "ok" ELSE "raise"],
                  [call |-> "classify", side |-> "after", arg |-> r2,
                   status |-> IF r2.kind = "resp" THEN "ok" ELSE "raise"],
                  [call |-> "thumbnail", side |-> "before", arg |-> "clustered",
                   status |-> IF t1 THEN "ok" ELSE "raise"],
                  [call |-> "thumbnail", side |-> "after", arg |-> "clustered",
                   status |-> IF t2 THEN "ok" ELSE "raise"],
                  [call |-> "get", side |-> "before", arg |-> "before_cluster.png",
                   status |-> s1],
                  [call |-> "get", side |-> "after", arg |-> "after_cluster.png",
                   status |-> s2] >>
        issued == IF ~ok1 THEN 1 ELSE IF ~ok2 THEN 2 ELSE IF ~ok3 THEN 3
                  ELSE IF ~ok4 THEN 4 ELSE IF ~ok5 THEN 5 ELSE 6
        files1 == IF ok4 THEN SaveImageFromUrl(files, "before_cluster.png", s1)
                  ELSE files
        files2 == IF ok5 THEN SaveImageFromUrl(files1, "after_cluster.png", s2)
                  ELSE files1
    IN  [ok |-> ok6,
         log |-> Prefix(log, issued),
         session |-> [session EXCEPT
            !.before_summary = IF ok1 THEN Val("cur", ret1[1]) ELSE @,
            !.after_summary = IF ok2 THEN Val("cur", ret2[1]) ELSE @,
            !.before_cluster_img = IF ok6 THEN Val("cur", "before_cluster.png") ELSE @,
            !.after_cluster_img = IF ok6 THEN Val("cur", "after_cluster.png") ELSE @],
         table |-> IF ok6 THEN TableData(ret1[1], ret2[1]) ELSE <<>>,
         fig |-> IF ok6 THEN Val("cur", "fig") ELSE NoVal,
         files |-> IF ok6 THEN [files2 EXCEPT !["chart.png"] = Val("cur", "png")]
                   ELSE files2]

\* the outcomes of the six requests of Section 2; a request that is not
\* issued because an earlier one raised has no outcome (it is listed as
\* answering)
Section2Outcomes ==
    {o \in ClassifyResponses \X ClassifyResponses \X BOOLEAN \X BOOLEAN
            \X GetOutcomes \X GetOutcomes :
        LET rest(i) == /\ (i < 2 => o[2] = ClassifyRaises)
                       /\ (i < 3 => o[3])
                       /\ (i < 4 => o[4])
                       /\ (i < 5 => o[5] = "200")
                       /\ (i < 6 => o[6] = "200")
        IN  /\ ~Unpacks(o[1]) => rest(1)
            /\ ~Unpacks(o[2]) => rest(2)
            /\ ~o[3] => rest(3)
            /\ ~o[4] => rest(4)
            /\ o[5] = "raise" => rest(5)}

\* app.py:166: the section runs when before_img and after_img are locals of
\* this execution
Section2Runs == submitted /\ before_img.set /\ after_img.set

Section2 ==
    /\ pc = "sec2"
    /\ pc' = "sec3"
    /\ IF ~Section2Runs
       THEN UNCHANGED <<session, requests, errors, fig_image, table_data, files,
                        succeeded>>
       ELSE \E o \in Section2Outcomes :
            LET t == Section2Try(o[1], o[2], o[3], o[4], o[5], o[6])
            IN  /\ session' = t.session
                /\ requests' = requests \o t.log
                /\ table_data' = t.table
                /\ fig_image' = t.fig
                /\ files' = t.files
                /\ errors' = IF t.ok THEN errors
                             ELSE errors \cup {"Failed to generate summary"}
                /\ succeeded' = (succeeded \/ (t.ok /\ errors = {}))
    /\ UNCHANGED <<widgetVars, region_geom, submitted, generate_pdf, clicked,
                   midpoint, before_img, after_img, summary_structured, pdf_rows,
                   report, session_at_start>>

----------------------------------------------------------------------------
(* Report composer: report_utils.py:12-80 *)

\* pdf.image raises on a path that names no file (lines 31-32, 45-46, 78)
PdfImagesPresent(fs) == \A f \in FileNames : fs[f].set

\* the document generate_pdf_report writes: for each image file it embeds,
\* whether the file was written by this execution or an earlier one, and the
\* lines of its summary table
GeneratePdfReport(fs, summary) ==
    [images |-> [f \in FileNames |-> fs[f].age], rows |-> PdfRows(summary)]

----------------------------------------------------------------------------
(* Section 3: app.py:261-314 *)

\* what the try block of Section 3 does when the two downloads end in g1, g2
Section3Try(g1, g2) ==
    LET okA == session.before_summary.set /\ session.after_summary.set
        summary == IF okA THEN SummaryStructured(session.before_summary.v,
                                                 session.after_summary.v)
                   ELSE <<>>
        okB == okA /\ session.before_url.set
        files1 == IF okB THEN SaveImageFromUrl(files, "before.png", g1) ELSE files
        okC == okB /\ g1 # "raise" /\ session.after_url.set
        files2 == IF okC THEN SaveImageFromUrl(files1, "after.png", g2) ELSE files1
        okD == okC /\ g2 # "raise" /\ fig_image.set
        files3 == IF okD THEN [files2 EXCEPT !["chart.png"] = Val("cur", "png")]
                  ELSE files2
        okE == okD /\ session.before_cluster_img.set /\ session.after_cluster_img.set
                   /\ PdfImagesPresent(files3)
        log == (IF okB THEN << [call |-> "get", side |-> "before",
                                arg |-> "before.png", status |-> g1] >> ELSE <<>>)
               \o
               (IF okC THEN << [call |-> "get", side |-> "after",
                                arg |-> "after.png", status |-> g2] >> ELSE <<>>)
    IN  [ok |-> okE,
         log |-> log,
         summary |-> summary,
         files |-> files3,
         report |-> IF okE THEN Val("cur", GeneratePdfReport(files3, summary))
                    ELSE NoVal]

\* the outcomes of the two downloads of Section 3 (the second is listed as
\* "200" when the first raised)
Section3Outcomes ==
    {g \in GetOutcomes \X GetOutcomes : g[1] = "raise" => g[2] = "200"}

\* app.py:264-267: the generate_pdf flag once the button was evaluated, which
\* is whether the report block runs in this execution
ReportRequested == clicked = "pdf" \/ generate_pdf

FlagKept(flag) == flag

\* app.py:267-314: the generate_pdf flag at the end of the script; the report
\* block resets it after its try/except
FlagAtEnd(flag) == IF flag THEN FALSE ELSE flag

Section3 ==
    /\ pc = "sec3"
    /\ pc' = "idle"
    /\ IF ~ReportRequested
       THEN UNCHANGED <<summary_structured, pdf_rows, files,
                        requests, errors, report>>
       ELSE \E g \in Section3Outcomes :
            LET t == Section3Try(g[1], g[2])
            IN  /\ summary_structured' = t.summary
                /\ files' = t.files
                /\ requests' = requests \o t.log
                /\ report' = t.report
                /\ pdf_rows' = IF t.ok THEN t.report.v.rows ELSE <<>>
                /\ errors' = IF t.ok THEN errors
                             ELSE errors \cup {"Failed to generate report"}
    /\ generate_pdf' = FlagAtEnd(ReportRequested)
    /\ UNCHANGED <<widgetVars, region_geom, submitted, session, clicked,
                   midpoint, before_img, after_img, fig_image, table_data,
                   session_at_start, succeeded>>

----------------------------------------------------------------------------
(* The session: any sequence of script executions *)

Next ==
    \/ ClickRunAnalysis
    \/ ClickGenerateReport
    \/ \E d \in 0..RunMaxDay : SetStartDate(d)
    \/ \E d \in 0..RunMaxDay : SetEndDate(d)
    \/ Section1
    \/ Section2
    \/ Section3

Spec == Init /\ [][Next]_vars

----------------------------------------------------------------------------
(* The change aggregator on its own: the table of Section 2 (app.py:214-226), *)
(* the rows of Section 3 (app.py:288-298) and the table lines of the report    *)
(* (report_utils.py:65-71), for every pair of class-area mappings of the       *)
(* bounds held by the session.                                                 *)

ClassIds == 0..(MaxClass - 1)
Areas == 0..MaxArea

InitAgg ==
    /\ region_option = "EKSU Environs"
    /\ lat = eksu_lat
    /\ lon = eksu_lon
    /\ buffer_km = BufferDefault
    /\ start_date = StartFloor
    /\ end_date = EndDefault
    /\ region_geom = RegionGeom("EKSU Environs", eksu_lat, eksu_lon, BufferDefault)
    /\ submitted = TRUE
    /\ generate_pdf = TRUE
    /\ \E b, a \in Mappings(ClassIds, Areas) :
         session = [NoSession EXCEPT !.before_summary = Val("cur", b),
                                     !.after_summary = Val("cur", a)]
    /\ pc = "agg"
    /\ clicked = "pdf"
    /\ midpoint = NoVal
    /\ before_img = NoVal
    /\ after_img = NoVal
    /\ fig_image = NoVal
    /\ table_data = <<>>
    /\ summary_structured = <<>>
    /\ pdf_rows = <<>>
    /\ files = [f \in FileNames |-> NoVal]
    /\ requests = <<>>
    /\ errors = {}
    /\ report = NoVal
    /\ session_at_start = NoSession
    /\ succeeded = FALSE

\* app.py:214-226
BuildTable ==
    /\ pc = "agg"
    /\ pc' = "agg_table"
    /\ table_data' = TableData(session.before_summary.v, session.after_summary.v)
    /\ UNCHANGED <<widgetVars, region_geom, submitted, generate_pdf, session, clicked,
                   midpoint, before_img, after_img, fig_image, summary_structured,
                   pdf_rows, envVars, session_at_start, succeeded>>

\* app.py:288-298
BuildSummary ==
    /\ pc = "agg_table"
    /\ pc' = "agg_summary"
    /\ summary_structured' = SummaryStructured(session.before_summary.v,
                                               session.after_summary.v)
    /\ UNCHANGED <<widgetVars, region_geom, submitted, generate_pdf, session, clicked,
                   midpoint, before_img, after_img, fig_image, table_data,
                   pdf_rows, envVars, session_at_start, succeeded>>

\* report_utils.py:65-71
PrintRows ==
    /\ pc = "agg_summary"
    /\ pc' = "agg_done"
    /\ pdf_rows' = PdfRows(summary_structured)
    /\ UNCHANGED <<widgetVars, region_geom, submitted, generate_pdf, session, clicked,
                   midpoint, before_img, after_img, fig_image, table_data,
                   summary_structured, envVars, session_at_start, succeeded>>

NextAgg == BuildTable \/ BuildSummary \/ PrintRows

SpecAgg == InitAgg /\ [][NextAgg]_vars

----------------------------------------------------------------------------
(* The time window splitter on its own: app.py:140-147 for every date pair *)
(* of the bounds.                                                          *)

InitSplit ==
    /\ region_option = "EKSU Environs"
    /\ lat = eksu_lat
    /\ lon = eksu_lon
    /\ buffer_km = BufferDefault
    /\ start_date \in StartFloor..MaxDay
    /\ end_date \in (0 - MaxDay)..MaxDay
    /\ region_geom = RegionGeom("EKSU Environs", eksu_lat, eksu_lon, BufferDefault)
    /\ submitted = TRUE
    /\ generate_pdf = FALSE
    /\ session = NoSession
    /\ pc = "split"
    /\ clicked = "run"
    /\ midpoint = NoVal
    /\ before_img = NoVal
    /\ after_img = NoVal
    /\ fig_image = NoVal
    /\ table_data = <<>>
    /\ summary_structured = <<>>
    /\ pdf_rows = <<>>
    /\ files = [f \in FileNames |-> NoVal]
    /\ requests = <<>>
    /\ errors = {}
    /\ report = NoVal
    /\ session_at_start = NoSession
    /\ succeeded = FALSE

\* app.py:140-147: the midpoint and the two windows handed to
\* get_composite_image
SplitWindows ==
    /\ pc = "split"
    /\ pc' = "split_done"
    /\ midpoint' = Val("cur", Midpoint(start_date, end_date))
    /\ before_img' = Val("cur", BeforeWindow(start_date, end_date))
    /\ after_img' = Val("cur", AfterWindow(start_date, end_date))
    /\ UNCHANGED <<widgetVars, region_geom, submitted, generate_pdf, session, clicked,
                   fig_image, table_data, summary_structured, pdf_rows, envVars,
                   session_at_start, succeeded>>

NextSplit == SplitWindows

SpecSplit == InitSplit /\ [][NextSplit]_vars

----------------------------------------------------------------------------
(* The region resolver on its own: app.py:36-77 for every widget setting of *)
(* the bounds.                                                              *)

Coords(default) == {default + i * CoordStep : i \in (0 - MaxCoord)..MaxCoord}

InitRegion ==
    /\ region_option \in {"EKSU Environs", "Custom Coordinates"}
    /\ lat \in Coords(eksu_lat)
    /\ lon \in Coords(eksu_lon)
    /\ buffer_km \in BufferMin..BufferMax
    /\ start_date = StartFloor
    /\ end_date = EndDefault
    /\ region_geom = <<>>
    /\ submitted = FALSE
    /\ generate_pdf = FALSE
    /\ session = NoSession
    /\ pc = "region"
    /\ clicked = "none"
    /\ midpoint = NoVal
    /\ before_img = NoVal
    /\ after_img = NoVal
    /\ fig_image = NoVal
    /\ table_data = <<>>
    /\ summary_structured = <<>>
    /\ pdf_rows = <<>>
    /\ files = [f \in FileNames |-> NoVal]
    /\ requests = <<>>
    /\ errors = {}
    /\ report = NoVal
    /\ session_at_start = NoSession
    /\ succeeded = FALSE

\* app.py:43-77
Resolve ==
    /\ pc = "region"
    /\ pc' = "region_done"
    /\ region_geom' = RegionGeom(region_option, lat, lon, buffer_km)
    /\ UNCHANGED <<widgetVars, submitted, generate_pdf, session, clicked, localVars,
                   envVars, session_at_start, succeeded>>

NextRegion == Resolve

SpecRegion == InitRegion /\ [][NextRegion]_vars

----------------------------------------------------------------------------
(* Properties *)

\* the row of `rows` (tuples starting with the class id) for class k
RowsOf(rows, k) == {i \in DOMAIN rows : rows[i][1] = k}

\* x is a nearest integer to num/den (den > 0)
Nearest(x, num, den) == 2 * x * den - 2 * num <= den /\ 2 * num - 2 * x * den <= den

\* the spec's example, in hundredths: before = {0: 10.0, 1: 5.0},
\* after = {0: 8.0, 2: 3.0}
ExampleBefore == [k \in {0, 1} |-> IF k = 0 THEN 1000 ELSE 500]
ExampleAfter == [k \in {0, 2} |-> IF k = 0 THEN 800 ELSE 300]

\* C1: once the dashboard table is built from the mappings (before, after),
\* every class id k of the union of their keys has exactly one row, and it is
\* (k, b, a, change, percent) with b = before[k] or 0, a = after[k] or 0,
\* change = a - b (to 2 decimals), percent = change / b * 100 rounded to
\* 2 decimals when b # 0 and "N/A" when b = 0 (so also when a = 0 too); and
\* the example mappings give the rows (0, 10.0, 8.0, -2.0, -20.0),
\* (1, 5.0, 0, -5.0, -100.0), (2, 0, 3.0, 3.0, "N/A").
C1_TableRows ==
    /\ pc \in {"agg_table", "agg_summary", "agg_done"} =>
        LET before == session.before_summary.v
            after == session.after_summary.v
        IN  \A k \in DOMAIN before \cup DOMAIN after :
              LET b == IF k \in DOMAIN before THEN before[k] ELSE 0
                  a == IF k \in DOMAIN after THEN after[k] ELSE 0
              IN  /\ Cardinality(RowsOf(table_data, k)) = 1
                  /\ \A i \in RowsOf(table_data, k) :
                       /\ Len(table_data[i]) = 5
                       /\ table_data[i][2] = b
                       /\ table_data[i][3] = a
                       /\ table_data[i][4] = a - b
                       /\ b = 0 => table_data[i][5] = NA
                       /\ b # 0 => /\ table_data[i][5].kind = "num"
                                   /\ Nearest(table_data[i][5].val, (a - b) * 10000, b)
    /\ TableData(ExampleBefore, ExampleAfter) =
         << <<0, 1000, 800, -200, Num(-2000)>>,
            <<1, 500, 0, -500, Num(-10000)>>,
            <<2, 0, 300, 300, NA>> >>

\* C1 witness: a table built from mappings with a class whose before area is
\* 0 while its after area is 0 too (percent "N/A"), and a class whose percent
\* needed rounding (0.03 ha -> 0.01 ha: -66.67 %).
C1_Witness ==
    /\ pc = "agg_table"
    /\ \E i \in DOMAIN table_data : table_data[i] = <<0, 0, 0, 0, NA>>
    /\ \E i \in DOMAIN table_data : table_data[i] = <<1, 3, 1, -2, Num(-6667)>>

\* C2: the lines printed in the report's summary table carry, for every class
\* id, the percent value of the dashboard table's row for the same two
\* mappings; a class whose before area is zero or absent is printed with the
\* "N/A" marker, never with a zero.
C2_ReportPercentMatchesTable ==
    pc = "agg_done" =>
        /\ Len(pdf_rows) = Len(table_data)
        /\ \A i \in DOMAIN pdf_rows :
             /\ pdf_rows[i][5][1] = table_data[i][5]
             /\ pdf_rows[i][2] = 0 => pdf_rows[i][5][1] = NA

\* strictly ascending sequence of integers
Ascending(s) == \A i, j \in DOMAIN s : i < j => s[i] < s[j]

\* C3: the aggregator emits exactly one row per class id of the union of the
\* two key sets, in strictly ascending id order, with area 0 on the side an id
\* is missing from; for the dashboard table and for the rows built for the
\* report.
C3_UnionSortedZeroDefault ==
    LET before == session.before_summary.v
        after == session.after_summary.v
        keys == DOMAIN before \cup DOMAIN after
    IN  /\ pc \in {"agg_table", "agg_summary", "agg_done"} =>
            LET ids == [i \in DOMAIN table_data |-> table_data[i][1]]
            IN  /\ Len(table_data) = Cardinality(keys)
                /\ {ids[i] : i \in DOMAIN ids} = keys
                /\ Ascending(ids)
                /\ \A i \in DOMAIN table_data :
                     /\ ids[i] \notin DOMAIN before => table_data[i][2] = 0
                     /\ ids[i] \in DOMAIN before => table_data[i][2] = before[ids[i]]
                     /\ ids[i] \notin DOMAIN after => table_data[i][3] = 0
                     /\ ids[i] \in DOMAIN after => table_data[i][3] = after[ids[i]]
        /\ pc \in {"agg_summary", "agg_done"} =>
            LET ids == [i \in DOMAIN summary_structured |-> summary_structured[i].k]
            IN  /\ Len(summary_structured) = Cardinality(keys)
                /\ {ids[i] : i \in DOMAIN ids} = keys
                /\ Ascending(ids)
                /\ \A i \in DOMAIN summary_structured :
                     /\ ids[i] \notin DOMAIN before => summary_structured[i].before = 0
                     /\ ids[i] \in DOMAIN before =>
                            summary_structured[i].before = before[ids[i]]
                     /\ ids[i] \notin DOMAIN after => summary_structured[i].after = 0
                     /\ ids[i] \in DOMAIN after =>
                            summary_structured[i].after = after[ids[i]]

\* C3 witness: both row sets built from mappings with disjoint key sets, each
\* id missing from one side.
C3_Witness ==
    /\ pc = "agg_summary"
    /\ DOMAIN session.before_summary.v = {1}
    /\ DOMAIN session.after_summary.v = {0}
    /\ Len(table_data) = 2
    /\ Len(summary_structured) = 2
    /\ summary_structured[1].before = 0
    /\ table_data[2][3] = 0

\* C4: for start < end, with midpoint = start + floor((end - start) / 2), the
\* before window requested is [start, midpoint] and the after window is
\* [midpoint + 1, end]; both are non-empty, they share no day and every day of
\* [start, end] lies in exactly one of them.
C4_WindowsPartition ==
    (pc = "split_done" /\ start_date < end_date) =>
        LET m == midpoint.v
            wb == before_img.v
            wa == after_img.v
        IN  /\ 2 * (m - start_date) <= end_date - start_date
            /\ end_date - start_date <= 2 * (m - start_date) + 1
            /\ wb = [from |-> start_date, to |-> m]
            /\ wa = [from |-> m + 1, to |-> end_date]
            /\ Days(wb) # {}
            /\ Days(wa) # {}
            /\ Days(wb) \cap Days(wa) = {}
            /\ Days(wb) \cup Days(wa) = start_date..end_date

\* C4 witness: the split of a range of two days (end = start + 1), where each
\* window is a single day, and of a longer odd range.
C4_Witness ==
    /\ pc = "split_done"
    /\ start_date = 2
    /\ end_date = 5
    /\ before_img.v = [from |-> 2, to |-> 3]
    /\ after_img.v = [from |-> 4, to |-> 5]

\* an external request (composite, thumbnail, classification) raised in the
\* current execution
ExternalCallFailed ==
    \E i \in DOMAIN requests :
        /\ requests[i].call \in {"composite", "thumbnail", "classify"}
        /\ requests[i].status = "raise"

\* C5: at the end of an execution in which an external call failed, an error
\* message is displayed and the six results stored in the session equal their
\* values from before the execution; the stored before and after imagery
\* never come from two different executions.
C5_FailureLeavesResultsIntact ==
    pc = "idle" =>
        /\ ExternalCallFailed => (errors # {} /\ session = session_at_start)
        /\ (session.before_url.set /\ session.after_url.set) =>
                session.before_url.age = session.after_url.age

\* every download (requests.get) of the current execution answered 200
DownloadsSucceeded ==
    \A i \in DOMAIN requests : requests[i].call = "get" => requests[i].status = "200"

\* C6: after an analysis that succeeded, an execution in which the imagery
\* fetch fails and the report is requested (nothing else failing) still
\* generates the report from the results held in the session.
C6_ReportAfterFetchFailure ==
    (/\ pc = "idle"
     /\ succeeded
     /\ clicked = "pdf"
     /\ "Failed to fetch images" \in errors
     /\ \A f \in FileNames : files[f].set
     /\ DownloadsSucceeded) => report.set

\* C7: when Run Analysis is clicked with the end date before the start date,
\* no composite, thumbnail or classification request is issued in that
\* execution.
C7_EndBeforeStartRejected ==
    (clicked = "run" /\ end_date < start_date) => requests = <<>>

\* C8: a report document is emitted only when every image download of the
\* execution answered 200 and each of the five images it embeds was written
\* by this execution, never taken from a file left by an earlier one.
C8_ReportImagesObtained ==
    report.set =>
        /\ DownloadsSucceeded
        /\ \A f \in FileNames : report.v.images[f] = "cur"

\* C9: when start = end the after window is empty; and whenever the
\* classification service answers (zero training samples included),
\* classify_and_summarize returns a pair, with an empty mapping for zero
\* samples, so that the two-value unpacking succeeds and no failure is shown
\* for it.
C9_ZeroSamplesReturnPair ==
    /\ (after_img.set /\ start_date = end_date) => Days(after_img.v) = {}
    /\ \A i \in DOMAIN requests :
         (requests[i].call = "classify" /\ requests[i].status = "ok") =>
            /\ Len(ClassifyAndSummarize(requests[i].arg)) = 2
            /\ requests[i].arg.size = 0 =>
                    ClassifyAndSummarize(requests[i].arg)[1] = EmptyMap
    /\ (\A i \in DOMAIN requests : requests[i].status \in {"ok", "200", "non200"})
            => "Failed to generate summary" \notin errors

\* C10: in custom mode with centre (lat, lon) and radius r, and for the
\* preset, the region polygon has exactly the 5 points (lon-d, lat-d),
\* (lon-d, lat+d), (lon+d, lat+d), (lon+d, lat-d), (lon-d, lat-d) with
\* d = r / 111 > 0: it is closed and the centre is the centroid of its four
\* distinct corners.
C10_RegionSquare ==
    pc = "region_done" =>
        LET custom == region_option = "Custom Coordinates"
            clat == IF custom THEN lat ELSE eksu_lat
            clon == IF custom THEN lon ELSE eksu_lon
            r == IF custom THEN buffer_km ELSE eksu_buffer_km
            g == region_geom
            d == (r * DegUnits) \div (KmPerDegree * 10)
        IN  /\ Len(g) = 5
            /\ \* d degrees * 111 = r kilometres
                 /\ d * KmPerDegree * 10 = r * DegUnits
                 /\ d > 0
                 /\ g[1] = <<clon - d, clat - d>>
                 /\ g[2] = <<clon - d, clat + d>>
                 /\ g[3] = <<clon + d, clat + d>>
                 /\ g[4] = <<clon + d, clat - d>>
                 /\ g[5] = <<clon - d, clat - d>>
            /\ g[1] = g[5]
            /\ Cardinality({g[1], g[2], g[3], g[4]}) = 4
            /\ g[1][1] + g[2][1] + g[3][1] + g[4][1] = 4 * clon
            /\ g[1][2] + g[2][2] + g[3][2] + g[4][2] = 4 * clat

\* C10 witness: a custom region off the default centre with a radius that is
\* not a whole number of kilometres, resolved.
C10_Witness ==
    /\ pc = "region_done"
    /\ region_option = "Custom Coordinates"
    /\ lat = eksu_lat + CoordStep
    /\ lon = eksu_lon - CoordStep
    /\ buffer_km = 25
    /\ region_geom[3] = <<lon + 250000, lat + 250000>>

\* the report block ran in the current execution: it ended with a document or
\* with its error message
ReportAttempted == report.set \/ "Failed to generate report" \in errors

\* C11: over any sequence of executions, the generate_pdf flag is False at
\* the end of every execution and right after a Run Analysis click, a report
\* generation attempt occurs only in an execution triggered by a Generate
\* Report PDF click (a later rerun does not repeat it), and the submitted
\* flag, once set, is never reset.
C11_ReportFlagOneShot ==
    /\ [](pc = "idle" => ~generate_pdf)
    /\ []((clicked = "run" /\ pc = "sec1") => (submitted /\ ~generate_pdf))
    /\ [](ReportAttempted => clicked = "pdf")
    /\ [][submitted => submitted']_vars

\* C11 witness: the end of a rerun caused by a widget change, after an
\* analysis and after an earlier report attempt (which wrote before.png):
\* no report attempt in it, the flag False, submitted still set.
C11_Witness ==
    /\ pc = "idle"
    /\ clicked = "none"
    /\ submitted
    /\ files["before.png"].set
    /\ ~ReportAttempted
    /\ ~generate_pdf

====
